---------------------------- MODULE Spec2Model ----------------------------
(***************************************************************************)
(* Model of kernel/cpusysregs.h: the Arm64 CPU system registers interface. *)
(*                                                                         *)
(* The header is stateless: it is a set of macros and one inline function. *)
(* The state of the model is the record of the last macro evaluation (the  *)
(* macro, its arguments, its value) and, for the command macros, the       *)
(* command derived just before on the same transport.                      *)
(*                                                                         *)
(* C integer values are modelled as the set of the positions of their one  *)
(* bits: a csr_u64_t is a subset of 0..63, an int or a 32-bit instruction  *)
(* word a subset of 0..31 (two's complement).  Bitwise AND is then set     *)
(* intersection, OR is union, and shifts move the positions.               *)
(***************************************************************************)
EXTENDS Integers, FiniteSets, Sequences, TLC

VARIABLES cur, prev

vars == <<cur, prev>>

---------------------------------------------------------------------------
(* Bounds of the explored inputs.                                          *)

\* Register ids given to CSR_REG_IS_SINGLE / CSR_REG_IS_PAIR: -NegRegIds..MaxRegId.
MaxRegId == 600
NegRegIds == 300
\* Number of background bit patterns of the 64-bit register values.
NumBackgrounds == 2

---------------------------------------------------------------------------
(* Machine integers as sets of bit positions.                              *)

\* The one bits of a natural number below 2^31.
Bits(n) == {i \in 0..30 : (n \div (2 ^ i)) % 2 = 1}

\* The one bits of each hexadecimal digit.
NibbleBits == [v \in 0..15 |-> Bits(v)]

\* The 32-bit two's complement representation of an int.
Int32(n) == IF n >= 0 THEN Bits(n) ELSE (0..31) \ Bits(0 - (n + 1))

\* The number a set of bit positions below 31 stands for.
RECURSIVE Value(_)
Value(b) == IF b = {} THEN 0
            ELSE LET i == CHOOSE j \in b : TRUE IN (2 ^ i) + Value(b \ {i})

\* A hexadecimal literal, one nibble per element, most significant first.
Hex(digits) ==
    UNION {{4 * (Len(digits) - k) + j : j \in NibbleBits[digits[k]]} : k \in 1..Len(digits)}

And(a, b) == a \cap b
Or(a, b) == a \cup b
Not32(a) == (0..31) \ a
Shl32(a, n) == {i + n : i \in a} \cap (0..31)
Shr(a, n) == {i - n : i \in {j \in a : j >= n}}

\* The int values of the C operators ||, >= and ==.
Zero == {}
One == {0}
Truth(b) == IF b THEN One ELSE Zero

---------------------------------------------------------------------------
(* Check CPU features based on system registers values.                    *)

\* Faulty variant: the API nibble left out of the mask of isar1.
CSR_HAS_PAC_ApaOnly(isar1, isar2) ==
    Truth(And(isar1, Hex(<<0,0,0,0,0,0,15,0>>)) # Zero
          \/ And(isar2, Hex(<<0,0,0,0,15,0,0,0>>)) # Zero)

CSR_HAS_PAC(isar1, isar2) ==
    Truth(And(isar1, Hex(<<0,0,0,0,0,15,15,0>>)) # Zero
          \/ And(isar2, Hex(<<0,0,0,0,15,0,0,0>>)) # Zero)

\* 0xFF000000 does not fit an int: it is an unsigned int, extended with zeroes.
CSR_HAS_PACGA(isar1, isar2) ==
    Truth(And(isar1, Hex(<<15,15,0,0,0,0,0,0>>)) # Zero
          \/ And(isar2, Hex(<<0,0,0,0,0,15,0,0>>)) # Zero)

CSR_HAS_BTI(pfr1) == And(pfr1, Hex(<<0,15>>))

CSR_HAS_RME(pfr0) == And(pfr0, Hex(<<0,0,15,0,0,0,0,0,0,0,0,0,0,0,0,0>>))

\* Faulty variant: the nibble below the RME field.
CSR_RME_VERSION_Shift48(pfr0) == And(Shr(pfr0, 48), Hex(<<0,15>>))

CSR_RME_VERSION(pfr0) == And(Shr(pfr0, 52), Hex(<<0,15>>))

\* Faulty variant: the threshold off by one.
CSR_HAS_CSV2_2_Above2(pfr0) == Truth(Value(And(Shr(pfr0, 56), Hex(<<0,15>>))) > 2)

CSR_HAS_CSV2_2(pfr0) == Truth(Value(And(Shr(pfr0, 56), Hex(<<0,15>>))) >= 2)

FEAT_PAC == 1
FEAT_PACGA == 2
FEAT_BTI == 4
FEAT_RME == 8
FEAT_CSV2_2 == 16

\* Faulty variant: BTI looked up in pfr0 instead of pfr1.
csr_get_cpu_features_BtiFromPfr0(pfr0, pfr1, isar1, isar2) ==
    Or(IF CSR_HAS_PAC(isar1, isar2) # Zero THEN Int32(FEAT_PAC) ELSE Zero,
    Or(IF CSR_HAS_PACGA(isar1, isar2) # Zero THEN Int32(FEAT_PACGA) ELSE Zero,
    Or(IF CSR_HAS_BTI(pfr0) # Zero THEN Int32(FEAT_BTI) ELSE Zero,
    Or(IF CSR_HAS_RME(pfr0) # Zero THEN Int32(FEAT_RME) ELSE Zero,
       IF CSR_HAS_CSV2_2(pfr0) # Zero THEN Int32(FEAT_CSV2_2) ELSE Zero))))

\* The value of csr_get_cpu_features() when the four MRS instructions read
\* pfr0, pfr1, isar1 and isar2 from the id registers of the CPU.
csr_get_cpu_features(pfr0, pfr1, isar1, isar2) ==
    Or(IF CSR_HAS_PAC(isar1, isar2) # Zero THEN Int32(FEAT_PAC) ELSE Zero,
    Or(IF CSR_HAS_PACGA(isar1, isar2) # Zero THEN Int32(FEAT_PACGA) ELSE Zero,
    Or(IF CSR_HAS_BTI(pfr1) # Zero THEN Int32(FEAT_BTI) ELSE Zero,
    Or(IF CSR_HAS_RME(pfr0) # Zero THEN Int32(FEAT_RME) ELSE Zero,
       IF CSR_HAS_CSV2_2(pfr0) # Zero THEN Int32(FEAT_CSV2_2) ELSE Zero))))

---------------------------------------------------------------------------
(* List of system registers which are handled by the kernel module.        *)

\* The C operator | on two non-negative int values.
IntOr(a, b) == Value(Or(Int32(a), Int32(b)))

_CSR_REG_BASE == 0
_CSR_REG2_BASE == 256
_CSR_REG_MASK == 255

CSR_REG_AA64PFR0 == IntOr(_CSR_REG_BASE, 0)
CSR_REG_AA64PFR1 == IntOr(_CSR_REG_BASE, 1)
CSR_REG_AA64ISAR0 == IntOr(_CSR_REG_BASE, 2)
CSR_REG_AA64ISAR1 == IntOr(_CSR_REG_BASE, 3)
CSR_REG_AA64ISAR2 == IntOr(_CSR_REG_BASE, 4)
CSR_REG_TCR == IntOr(_CSR_REG_BASE, 5)
CSR_REG_MIDR == IntOr(_CSR_REG_BASE, 6)
CSR_REG_MPIDR == IntOr(_CSR_REG_BASE, 7)
CSR_REG_REVIDR == IntOr(_CSR_REG_BASE, 8)
CSR_REG_TPIDRRO_EL0 == IntOr(_CSR_REG_BASE, 9)
CSR_REG_TPIDR_EL0 == IntOr(_CSR_REG_BASE, 10)
\* Faulty variant: the register numbered after the one before it.
CSR_REG_TPIDR_EL1_Consecutive == IntOr(_CSR_REG_BASE, 11)

CSR_REG_TPIDR_EL1 == IntOr(_CSR_REG_BASE, 12)
CSR_REG_SCXTNUM_EL0 == IntOr(_CSR_REG_BASE, 13)
CSR_REG_SCXTNUM_EL1 == IntOr(_CSR_REG_BASE, 14)
CSR_REG_SCTLR == IntOr(_CSR_REG_BASE, 15)

CSR_REG2_APIAKEY == IntOr(_CSR_REG2_BASE, 0)
CSR_REG2_APIBKEY == IntOr(_CSR_REG2_BASE, 1)
CSR_REG2_APDAKEY == IntOr(_CSR_REG2_BASE, 2)
CSR_REG2_APDBKEY == IntOr(_CSR_REG2_BASE, 3)
CSR_REG2_APGAKEY == IntOr(_CSR_REG2_BASE, 4)

\* The declared single registers, by name.
SingleRegs ==
    ("CSR_REG_AA64PFR0" :> CSR_REG_AA64PFR0) @@ ("CSR_REG_AA64PFR1" :> CSR_REG_AA64PFR1)
    @@ ("CSR_REG_AA64ISAR0" :> CSR_REG_AA64ISAR0) @@ ("CSR_REG_AA64ISAR1" :> CSR_REG_AA64ISAR1)
    @@ ("CSR_REG_AA64ISAR2" :> CSR_REG_AA64ISAR2) @@ ("CSR_REG_TCR" :> CSR_REG_TCR)
    @@ ("CSR_REG_MIDR" :> CSR_REG_MIDR) @@ ("CSR_REG_MPIDR" :> CSR_REG_MPIDR)
    @@ ("CSR_REG_REVIDR" :> CSR_REG_REVIDR) @@ ("CSR_REG_TPIDRRO_EL0" :> CSR_REG_TPIDRRO_EL0)
    @@ ("CSR_REG_TPIDR_EL0" :> CSR_REG_TPIDR_EL0) @@ ("CSR_REG_TPIDR_EL1" :> CSR_REG_TPIDR_EL1)
    @@ ("CSR_REG_SCXTNUM_EL0" :> CSR_REG_SCXTNUM_EL0)
    @@ ("CSR_REG_SCXTNUM_EL1" :> CSR_REG_SCXTNUM_EL1) @@ ("CSR_REG_SCTLR" :> CSR_REG_SCTLR)

\* The declared pair registers, by name.
PairRegs ==
    ("CSR_REG2_APIAKEY" :> CSR_REG2_APIAKEY) @@ ("CSR_REG2_APIBKEY" :> CSR_REG2_APIBKEY)
    @@ ("CSR_REG2_APDAKEY" :> CSR_REG2_APDAKEY) @@ ("CSR_REG2_APDBKEY" :> CSR_REG2_APDBKEY)
    @@ ("CSR_REG2_APGAKEY" :> CSR_REG2_APGAKEY)

\* Faulty variant: the mask applied without its complement.
CSR_REG_IS_SINGLE_NoComplement(reg) ==
    Truth(And(Int32(reg), Int32(_CSR_REG_MASK)) = Int32(_CSR_REG_BASE))

\* Check if a register id is a single register or a pair.
CSR_REG_IS_SINGLE(reg) ==
    Truth(And(Int32(reg), Not32(Int32(_CSR_REG_MASK))) = Int32(_CSR_REG_BASE))

CSR_REG_IS_PAIR(reg) ==
    Truth(And(Int32(reg), Not32(Int32(_CSR_REG_MASK))) = Int32(_CSR_REG2_BASE))

---------------------------------------------------------------------------
(* Kernel module commands.                                                 *)
(* Linux: ioctl() codes, built by _IOR and _IOW of <linux/ioctl.h>:        *)
(* direction at bits 30-31 (write 1, read 2), size of the argument at bits *)
(* 16-29, magic at bits 8-15, number at bits 0-7, OR-ed without masking.   *)
(* macOS: socket options.                                                  *)

_IOC(dir, type, nr, size) ==
    Or(Shl32(Int32(dir), 30),
    Or(Shl32(Int32(type), 8),
    Or(Shl32(Int32(nr), 0), Shl32(Int32(size), 16))))

_IOR(type, nr, size) == _IOC(2, type, nr, size)
\* Faulty variant: a write command given the read direction.
_IOW_AsRead(type, nr, size) == _IOC(2, type, nr, size)

_IOW(type, nr, size) == _IOC(1, type, nr, size)

sizeof_csr_u64_t == 8
sizeof_csr_pair_t == 16

_CSR_IOC_MAGIC == 16
_CSR_IOC_MAGIC2 == 32

\* 0x00AC0000
_CSR_SOCKOPT_BASE == Value(Hex(<<0,0,10,12,0,0,0,0>>))

Transports == {"linux", "macos"}

CSR_CMD_GET_REG(os, reg) ==
    IF os = "linux" THEN _IOR(_CSR_IOC_MAGIC, reg - _CSR_REG_BASE, sizeof_csr_u64_t)
    ELSE Int32(_CSR_SOCKOPT_BASE + reg)

\* Faulty variant: the pair command taken relative to the single range.
CSR_CMD_GET_REG2_SingleBase(os, reg) ==
    IF os = "linux" THEN _IOR(_CSR_IOC_MAGIC2, reg - _CSR_REG_BASE, sizeof_csr_pair_t)
    ELSE Int32(_CSR_SOCKOPT_BASE + reg)

CSR_CMD_GET_REG2(os, reg) ==
    IF os = "linux" THEN _IOR(_CSR_IOC_MAGIC2, reg - _CSR_REG2_BASE, sizeof_csr_pair_t)
    ELSE Int32(_CSR_SOCKOPT_BASE + reg)

CSR_CMD_SET_REG(os, reg) ==
    IF os = "linux" THEN _IOW(_CSR_IOC_MAGIC, reg - _CSR_REG_BASE, sizeof_csr_u64_t)
    ELSE Int32(_CSR_SOCKOPT_BASE + reg)

CSR_CMD_SET_REG2(os, reg) ==
    IF os = "linux" THEN _IOW(_CSR_IOC_MAGIC2, reg - _CSR_REG2_BASE, sizeof_csr_pair_t)
    ELSE Int32(_CSR_SOCKOPT_BASE + reg)

---------------------------------------------------------------------------
(* Definitions of Arm64 system registers and instructions to access them.  *)

\* Faulty variant: op2 one bit too low, over the register index.
CSR_SREG_Op2At4(op0, op1, crn, crm, op2) ==
    Or(Shl32(Int32(op0), 19),
    Or(Shl32(Int32(op1), 16),
    Or(Shl32(Int32(crn), 12),
    Or(Shl32(Int32(crm), 8), Shl32(Int32(op2), 4)))))

CSR_SREG(op0, op1, crn, crm, op2) ==
    Or(Shl32(Int32(op0), 19),
    Or(Shl32(Int32(op1), 16),
    Or(Shl32(Int32(crn), 12),
    Or(Shl32(Int32(crm), 8), Shl32(Int32(op2), 5)))))

\* The encodings of the system registers the names of which are not
\* recognized with the default level of architecture.
CSR_APIAKEYLO_EL1 == CSR_SREG(3, 0, 2, 1, 0)
CSR_APIAKEYHI_EL1 == CSR_SREG(3, 0, 2, 1, 1)
CSR_APIBKEYLO_EL1 == CSR_SREG(3, 0, 2, 1, 2)
CSR_APIBKEYHI_EL1 == CSR_SREG(3, 0, 2, 1, 3)
CSR_APDAKEYLO_EL1 == CSR_SREG(3, 0, 2, 2, 0)
CSR_APDAKEYHI_EL1 == CSR_SREG(3, 0, 2, 2, 1)
CSR_APDBKEYLO_EL1 == CSR_SREG(3, 0, 2, 2, 2)
CSR_APDBKEYHI_EL1 == CSR_SREG(3, 0, 2, 2, 3)
CSR_APGAKEYLO_EL1 == CSR_SREG(3, 0, 2, 3, 0)
CSR_APGAKEYHI_EL1 == CSR_SREG(3, 0, 2, 3, 1)
CSR_SCXTNUM_EL0 == CSR_SREG(3, 3, 13, 0, 7)
CSR_SCXTNUM_EL1 == CSR_SREG(3, 0, 13, 0, 7)

DeclaredSregs ==
    {CSR_APIAKEYLO_EL1, CSR_APIAKEYHI_EL1, CSR_APIBKEYLO_EL1, CSR_APIBKEYHI_EL1,
     CSR_APDAKEYLO_EL1, CSR_APDAKEYHI_EL1, CSR_APDBKEYLO_EL1, CSR_APDBKEYHI_EL1,
     CSR_APGAKEYLO_EL1, CSR_APGAKEYHI_EL1, CSR_SCXTNUM_EL0, CSR_SCXTNUM_EL1}

\* The .irp loop of _CSR_DEFINE_GPR: two symbols for each number of the list.
RECURSIVE Irp(_)
Irp(nums) ==
    IF nums = <<>> THEN <<>>
    ELSE ((".csr_gpr_x" \o ToString(Head(nums))) :> Head(nums))
         @@ ((".csr_gpr_w" \o ToString(Head(nums))) :> Head(nums))
         @@ Irp(Tail(nums))

\* The assembler symbols _CSR_DEFINE_GPR defines, with their values.
_CSR_DEFINE_GPR ==
    Irp(<<0,1,2,3,4,5,6,7,8,9,10,11,12,13,14,15,16,17,18,19,20,
          21,22,23,24,25,26,27,28,29,30>>)
    @@ (".csr_gpr_sp" :> 31) @@ (".csr_gpr_xzr" :> 31) @@ (".csr_gpr_wzr" :> 31)

\* The word of the .inst directive, gpr being the register name the compiler
\* puts in place of %0.
CSR_MSR_NUM(sreg, gpr) ==
    Or(Hex(<<13,5,0,0,0,0,0,0>>), Or(sreg, Int32(_CSR_DEFINE_GPR[".csr_gpr_" \o gpr])))

CSR_MRS_NUM(sreg, gpr) ==
    Or(Hex(<<13,5,2,0,0,0,0,0>>), Or(sreg, Int32(_CSR_DEFINE_GPR[".csr_gpr_" \o gpr])))

---------------------------------------------------------------------------
(* The 64-bit register values the macros are applied to: a background      *)
(* pattern (all zeroes, all ones, every k-th bit) with one nibble replaced *)
(* by each of its 16 values.                                               *)

Background(i) == IF i = 0 THEN {}
                 ELSE IF i = 1 THEN 0..63
                 ELSE {b \in 0..63 : b % i = 0}

Backgrounds == {Background(i) : i \in 0..(NumBackgrounds - 1)}

WithNibble(bg, p, v) == (bg \ ((4 * p)..(4 * p + 3))) \cup {4 * p + j : j \in NibbleBits[v]}

U64Inputs == {WithNibble(bg, p, v) : bg \in Backgrounds, p \in 0..15, v \in 0..15}

\* Two or four register values: one of them varies, the others are backgrounds.
PairInputs == (U64Inputs \X Backgrounds) \cup (Backgrounds \X U64Inputs)

QuadInputs ==
    (U64Inputs \X Backgrounds \X Backgrounds \X Backgrounds)
    \cup (Backgrounds \X U64Inputs \X Backgrounds \X Backgrounds)
    \cup (Backgrounds \X Backgrounds \X U64Inputs \X Backgrounds)
    \cup (Backgrounds \X Backgrounds \X Backgrounds \X U64Inputs)

\* The register ids given to the classification macros.
RegIdInputs == ((0 - NegRegIds)..MaxRegId) \cup {-2147483647 - 1, 2147483647}

\* The (op0, op1, CRn, CRm, op2) of a system register.
SregFields == (2..3) \X (0..7) \X (0..15) \X (0..15) \X (0..7)

\* The arguments of CSR_SREG in the encodings the header declares.
DeclaredSregArgs ==
    {<<3, 0, 2, 1, 0>>, <<3, 0, 2, 1, 1>>, <<3, 0, 2, 1, 2>>, <<3, 0, 2, 1, 3>>,
     <<3, 0, 2, 2, 0>>, <<3, 0, 2, 2, 1>>, <<3, 0, 2, 2, 2>>, <<3, 0, 2, 2, 3>>,
     <<3, 0, 2, 3, 0>>, <<3, 0, 2, 3, 1>>, <<3, 3, 13, 0, 7>>, <<3, 0, 13, 0, 7>>}

\* The system registers given to the instruction macros: the ones the header
\* declares, and the ones with one field of any value and the others at their
\* least or greatest value.
SregInputs ==
    DeclaredSregArgs
    \cup ({2, 3} \X (0..7) \X {0, 15} \X {0, 15} \X {0, 7})
    \cup ({2, 3} \X {0, 7} \X (0..15) \X {0, 15} \X {0, 7})
    \cup ({2, 3} \X {0, 7} \X {0, 15} \X (0..15) \X {0, 7})
    \cup ({2, 3} \X {0, 7} \X {0, 15} \X {0, 15} \X (0..7))

\* The register names the compiler may put in place of %0.
GprNames ==
    {"x" \o ToString(n) : n \in 0..30} \cup {"w" \o ToString(n) : n \in 0..30}
    \cup {"sp", "xzr", "wzr"}

---------------------------------------------------------------------------
(* State machine: one action per macro or function of the header.          *)

NoCall == [op |-> "none"]

Init == cur = NoCall /\ prev = NoCall

Eval_CSR_HAS_PAC ==
    /\ cur = NoCall
    /\ \E a \in PairInputs :
        /\ cur' = [op |-> "CSR_HAS_PAC", isar1 |-> a[1], isar2 |-> a[2],
                   res |-> CSR_HAS_PAC(a[1], a[2])]
        /\ prev' = NoCall

Eval_CSR_HAS_PACGA ==
    /\ cur = NoCall
    /\ \E a \in PairInputs :
        /\ cur' = [op |-> "CSR_HAS_PACGA", isar1 |-> a[1], isar2 |-> a[2],
                   res |-> CSR_HAS_PACGA(a[1], a[2])]
        /\ prev' = NoCall

Eval_CSR_HAS_BTI ==
    /\ cur = NoCall
    /\ \E v \in U64Inputs :
        /\ cur' = [op |-> "CSR_HAS_BTI", pfr1 |-> v, res |-> CSR_HAS_BTI(v)]
        /\ prev' = NoCall

Eval_CSR_HAS_RME ==
    /\ cur = NoCall
    /\ \E v \in U64Inputs :
        /\ cur' = [op |-> "CSR_HAS_RME", pfr0 |-> v, res |-> CSR_HAS_RME(v)]
        /\ prev' = NoCall

Eval_CSR_RME_VERSION ==
    /\ cur = NoCall
    /\ \E v \in U64Inputs :
        /\ cur' = [op |-> "CSR_RME_VERSION", pfr0 |-> v, res |-> CSR_RME_VERSION(v)]
        /\ prev' = NoCall

Eval_CSR_HAS_CSV2_2 ==
    /\ cur = NoCall
    /\ \E v \in U64Inputs :
        /\ cur' = [op |-> "CSR_HAS_CSV2_2", pfr0 |-> v, res |-> CSR_HAS_CSV2_2(v)]
        /\ prev' = NoCall

Call_csr_get_cpu_features ==
    /\ cur = NoCall
    /\ \E a \in QuadInputs :
        /\ cur' = [op |-> "csr_get_cpu_features",
                   pfr0 |-> a[1], pfr1 |-> a[2], isar1 |-> a[3], isar2 |-> a[4],
                   res |-> csr_get_cpu_features(a[1], a[2], a[3], a[4])]
        /\ prev' = NoCall

Eval_CSR_REG_IS_SINGLE ==
    /\ cur = NoCall
    /\ \E r \in RegIdInputs :
        /\ cur' = [op |-> "CSR_REG_IS_SINGLE", reg |-> r, res |-> CSR_REG_IS_SINGLE(r)]
        /\ prev' = NoCall

Eval_CSR_REG_IS_PAIR ==
    /\ cur = NoCall
    /\ \E r \in RegIdInputs :
        /\ cur' = [op |-> "CSR_REG_IS_PAIR", reg |-> r, res |-> CSR_REG_IS_PAIR(r)]
        /\ prev' = NoCall

CmdOps == {"CSR_CMD_GET_REG", "CSR_CMD_GET_REG2", "CSR_CMD_SET_REG", "CSR_CMD_SET_REG2"}

\* A command is derived for a declared register, first or after another
\* command of the same transport, which prev then holds.
CanDerive(os) ==
    \/ cur = NoCall
    \/ cur.op \in CmdOps /\ prev = NoCall /\ cur.os = os

Eval_CSR_CMD_GET_REG ==
    \E os \in Transports, n \in DOMAIN SingleRegs :
        /\ CanDerive(os)
        /\ cur' = [op |-> "CSR_CMD_GET_REG", os |-> os, name |-> n, reg |-> SingleRegs[n],
                   res |-> CSR_CMD_GET_REG(os, SingleRegs[n])]
        /\ prev' = cur

Eval_CSR_CMD_GET_REG2 ==
    \E os \in Transports, n \in DOMAIN PairRegs :
        /\ CanDerive(os)
        /\ cur' = [op |-> "CSR_CMD_GET_REG2", os |-> os, name |-> n, reg |-> PairRegs[n],
                   res |-> CSR_CMD_GET_REG2(os, PairRegs[n])]
        /\ prev' = cur

Eval_CSR_CMD_SET_REG ==
    \E os \in Transports, n \in DOMAIN SingleRegs :
        /\ CanDerive(os)
        /\ cur' = [op |-> "CSR_CMD_SET_REG", os |-> os, name |-> n, reg |-> SingleRegs[n],
                   res |-> CSR_CMD_SET_REG(os, SingleRegs[n])]
        /\ prev' = cur

Eval_CSR_CMD_SET_REG2 ==
    \E os \in Transports, n \in DOMAIN PairRegs :
        /\ CanDerive(os)
        /\ cur' = [op |-> "CSR_CMD_SET_REG2", os |-> os, name |-> n, reg |-> PairRegs[n],
                   res |-> CSR_CMD_SET_REG2(os, PairRegs[n])]
        /\ prev' = cur

Eval_CSR_SREG ==
    /\ cur = NoCall
    /\ \E f \in SregFields :
        /\ cur' = [op |-> "CSR_SREG", sreg |-> f,
                   res |-> CSR_SREG(f[1], f[2], f[3], f[4], f[5])]
        /\ prev' = NoCall

Eval_CSR_MSR_NUM ==
    /\ cur = NoCall
    /\ \E f \in SregInputs, g \in GprNames :
        /\ cur' = [op |-> "CSR_MSR_NUM", sreg |-> f, gpr |-> g,
                   res |-> CSR_MSR_NUM(CSR_SREG(f[1], f[2], f[3], f[4], f[5]), g)]
        /\ prev' = NoCall

Eval_CSR_MRS_NUM ==
    /\ cur = NoCall
    /\ \E f \in SregInputs, g \in GprNames :
        /\ cur' = [op |-> "CSR_MRS_NUM", sreg |-> f, gpr |-> g,
                   res |-> CSR_MRS_NUM(CSR_SREG(f[1], f[2], f[3], f[4], f[5]), g)]
        /\ prev' = NoCall

\* The caller consumes the value; the header keeps nothing between two uses.
Return ==
    /\ cur # NoCall
    /\ cur' = NoCall
    /\ prev' = NoCall

Next ==
    \/ Eval_CSR_HAS_PAC
    \/ Eval_CSR_HAS_PACGA
    \/ Eval_CSR_HAS_BTI
    \/ Eval_CSR_HAS_RME
    \/ Eval_CSR_RME_VERSION
    \/ Eval_CSR_HAS_CSV2_2
    \/ Call_csr_get_cpu_features
    \/ Eval_CSR_REG_IS_SINGLE
    \/ Eval_CSR_REG_IS_PAIR
    \/ Eval_CSR_CMD_GET_REG
    \/ Eval_CSR_CMD_GET_REG2
    \/ Eval_CSR_CMD_SET_REG
    \/ Eval_CSR_CMD_SET_REG2
    \/ Eval_CSR_SREG
    \/ Eval_CSR_MSR_NUM
    \/ Eval_CSR_MRS_NUM
    \/ Return

Spec == Init /\ [][Next]_vars

---------------------------------------------------------------------------
(* Properties.                                                             *)

Range(f) == {f[x] : x \in DOMAIN f}

\* The unsigned value of the n bits of w from bit lo up.
Field(w, lo, n) == Value({i - lo : i \in (w \cap (lo..(lo + n - 1)))})

IsCmd(c) == c.op \in CmdOps
IsGet(c) == c.op \in {"CSR_CMD_GET_REG", "CSR_CMD_GET_REG2"}
IsPairCmd(c) == c.op \in {"CSR_CMD_GET_REG2", "CSR_CMD_SET_REG2"}

\* C1: on each transport the codes of two distinct declared registers differ
\* in each direction, a single register code never equals a pair register
\* code, and each code fits the transport: on Linux the number field (bits
\* 0-7) is the range-relative id and the magic field (bits 8-15) is intact, on
\* macOS the code is 0x00AC0000 plus the logical id and fits in 24 bits.
C1_CodesUniqueAndInWidth ==
    /\ (IsCmd(cur) /\ cur.os = "linux") =>
          /\ cur.reg - (IF IsPairCmd(cur) THEN 256 ELSE 0) \in 0..255
          /\ Field(cur.res, 0, 8) = cur.reg - (IF IsPairCmd(cur) THEN 256 ELSE 0)
          /\ Field(cur.res, 8, 8) = (IF IsPairCmd(cur) THEN 32 ELSE 16)
    /\ (IsCmd(cur) /\ cur.os = "macos") =>
          /\ cur.res \subseteq 0..23
          /\ Value(cur.res) = 172 * 65536 + cur.reg
    /\ (IsCmd(cur) /\ IsCmd(prev) /\ prev.name # cur.name) =>
          /\ IsGet(prev) = IsGet(cur) => prev.res # cur.res
          /\ IsPairCmd(prev) # IsPairCmd(cur) => prev.res # cur.res

C1_Witness ==
    /\ prev.op = "CSR_CMD_GET_REG" /\ prev.name = "CSR_REG_SCTLR"
    /\ cur.op = "CSR_CMD_GET_REG2" /\ cur.name = "CSR_REG2_APGAKEY"
    /\ cur.os = "linux" /\ prev.os = "linux"
    /\ Field(cur.res, 0, 8) = 4 /\ Field(prev.res, 0, 8) = 15
    /\ prev.res # cur.res

\* C2: on Linux the four command families give pairwise disjoint codes, so
\* the get code and the set code of a register differ; on macOS the get code
\* and the set code of the same register are identical.
C2_DirectionEncoding ==
    (IsCmd(cur) /\ IsCmd(prev)) =>
        /\ (cur.os = "linux" /\ prev.op # cur.op) => prev.res # cur.res
        /\ (cur.os = "macos" /\ prev.name = cur.name) => prev.res = cur.res

C2_Witness ==
    /\ prev.op = "CSR_CMD_GET_REG" /\ cur.op = "CSR_CMD_SET_REG"
    /\ prev.name = "CSR_REG_TPIDR_EL0" /\ cur.name = "CSR_REG_TPIDR_EL0"
    /\ cur.os = "linux" /\ prev.os = "linux"
    /\ 31 \in prev.res /\ 30 \notin prev.res
    /\ 30 \in cur.res /\ 31 \notin cur.res

\* C3: CSR_REG_IS_SINGLE(id) is true exactly for id in 0x0000..0x00FF and
\* CSR_REG_IS_PAIR(id) exactly for id in 0x0100..0x01FF, no id satisfies both,
\* and every declared id is classified by its own macro only.
C3_ClassificationIsRangeTest ==
    /\ cur.op = "CSR_REG_IS_SINGLE" =>
          /\ cur.res \in {Zero, One}
          /\ cur.res = One <=> cur.reg \in 0..255
          /\ cur.res = One => CSR_REG_IS_PAIR(cur.reg) = Zero
          /\ cur.reg \in Range(SingleRegs) => cur.res = One
          /\ cur.reg \in Range(PairRegs) => cur.res = Zero
    /\ cur.op = "CSR_REG_IS_PAIR" =>
          /\ cur.res \in {Zero, One}
          /\ cur.res = One <=> cur.reg \in 256..511
          /\ cur.res = One => CSR_REG_IS_SINGLE(cur.reg) = Zero
          /\ cur.reg \in Range(PairRegs) => cur.res = One
          /\ cur.reg \in Range(SingleRegs) => cur.res = Zero

C3_Witness ==
    cur.op = "CSR_REG_IS_PAIR" /\ cur.reg = CSR_REG2_APGAKEY /\ cur.res = One

\* C4 as stated: every relative id 0x00..0x0F of the single range and every
\* relative id 0x00..0x04 of the pair range is a declared register.
C4_NoGaps ==
    /\ (cur.op = "CSR_REG_IS_SINGLE" /\ cur.reg \in 0..15) =>
          cur.reg \in Range(SingleRegs)
    /\ (cur.op = "CSR_REG_IS_PAIR" /\ cur.reg \in 256..260) =>
          cur.reg \in Range(PairRegs)

\* The relative ids the register table gives each group of registers, 0x0B
\* taken out of the thread/context group.
C4_GroupIds(name) ==
    IF name \in {"CSR_REG_AA64PFR0", "CSR_REG_AA64PFR1"} THEN 0..1
    ELSE IF name \in {"CSR_REG_AA64ISAR0", "CSR_REG_AA64ISAR1", "CSR_REG_AA64ISAR2"} THEN 2..4
    ELSE IF name = "CSR_REG_TCR" THEN {5}
    ELSE IF name \in {"CSR_REG_MIDR", "CSR_REG_MPIDR", "CSR_REG_REVIDR"} THEN 6..8
    ELSE IF name \in {"CSR_REG_TPIDRRO_EL0", "CSR_REG_TPIDR_EL0", "CSR_REG_TPIDR_EL1",
                      "CSR_REG_SCXTNUM_EL0", "CSR_REG_SCXTNUM_EL1"} THEN (9..14) \ {11}
    ELSE IF name = "CSR_REG_SCTLR" THEN {15}
    ELSE 256..260

\* C4 amended: every relative id 0x00..0x0F of the single range except 0x0B
\* is a declared register and 0x0B is not, every relative id 0x00..0x04 of
\* the pair range is a declared pair, each register has an id of its group,
\* and no two declared registers share an id.
C4_NoGapsBut0B ==
    /\ (cur.op = "CSR_REG_IS_SINGLE" /\ cur.reg \in 0..15) =>
          (cur.reg \in Range(SingleRegs) <=> cur.reg # 11)
    /\ (cur.op = "CSR_REG_IS_PAIR" /\ cur.reg \in 256..260) =>
          cur.reg \in Range(PairRegs)
    /\ IsCmd(cur) => cur.reg \in C4_GroupIds(cur.name)
    /\ (IsCmd(cur) /\ IsCmd(prev) /\ prev.name # cur.name) => prev.reg # cur.reg

C4_Witness ==
    /\ cur.op = "CSR_REG_IS_SINGLE" /\ cur.reg = 11 /\ cur.res = One
    /\ cur.reg \notin Range(SingleRegs)

\* C5: CSR_HAS_PAC is true exactly when bits 4-11 of isar1 or bits 12-15 of
\* isar2 are not all zero, whatever the other bits; false for (0, 0) and true
\* for (0x10, 0).
C5_HasPac ==
    cur.op = "CSR_HAS_PAC" =>
        /\ cur.res # Zero <=>
              (cur.isar1 \cap (4..11) # {} \/ cur.isar2 \cap (12..15) # {})
        /\ (cur.isar1 = {} /\ cur.isar2 = {}) => cur.res = Zero
        /\ (cur.isar1 = {4} /\ cur.isar2 = {}) => cur.res # Zero

C5_Witness ==
    cur.op = "CSR_HAS_PAC" /\ cur.isar1 = {4} /\ cur.isar2 = {} /\ cur.res # Zero

\* C6: CSR_RME_VERSION is the nibble at bits 52-55 of pfr0, a value in 0..15,
\* and CSR_HAS_RME is true exactly when that nibble is not zero, whatever
\* the other bits; the version of 0x0010000000000000 is 1.
C6_Rme ==
    /\ cur.op = "CSR_RME_VERSION" =>
          /\ cur.res \subseteq 0..3
          /\ \A j \in 0..3 : j \in cur.res <=> (52 + j) \in cur.pfr0
          /\ Value(cur.res) \in 0..15
          /\ cur.pfr0 = {52} => Value(cur.res) = 1
    /\ cur.op = "CSR_HAS_RME" =>
          (cur.res # Zero <=> cur.pfr0 \cap (52..55) # {})

C6_Witness ==
    cur.op = "CSR_RME_VERSION" /\ cur.pfr0 = {52} /\ Value(cur.res) = 1

\* C7: CSR_HAS_CSV2_2 is true exactly when the unsigned field at bits 56-59
\* of pfr0 is at least 2, whatever the other bits.
C7_HasCsv2_2 ==
    cur.op = "CSR_HAS_CSV2_2" =>
        /\ cur.res \in {Zero, One}
        /\ cur.res = One <=> cur.pfr0 \cap (57..59) # {}
        /\ cur.res = One <=> Field(cur.pfr0, 56, 4) \in 2..15

C7_Witness ==
    /\ cur.op = "CSR_HAS_CSV2_2"
    /\ cur.pfr0 = (0..63) \ (57..59)
    /\ cur.res = Zero

\* The number of the general-purpose register a name stands for.
C8_GprIndex(w, name) ==
    \/ name \in {"sp", "xzr", "wzr"} /\ Field(w, 0, 5) = 31
    \/ \E n \in 0..30 :
          /\ name \in {"x" \o ToString(n), "w" \o ToString(n)}
          /\ Field(w, 0, 5) = n

\* C8: the word of the numeric strategy is the MSR (0xD5000000) or MRS
\* (0xD5200000) template with op0 at bits 19-20, op1 at bits 16-18, CRn at
\* bits 12-15, CRm at bits 8-11, op2 at bits 5-7 and the register index at
\* bits 0-4, each field read back unchanged; xN and wN stand for N, and sp,
\* xzr and wzr for 31.
C8_InstructionWord ==
    /\ cur.op \in {"CSR_SREG", "CSR_MSR_NUM", "CSR_MRS_NUM"} =>
          /\ Field(cur.res, 19, 2) = cur.sreg[1]
          /\ Field(cur.res, 16, 3) = cur.sreg[2]
          /\ Field(cur.res, 12, 4) = cur.sreg[3]
          /\ Field(cur.res, 8, 4) = cur.sreg[4]
          /\ Field(cur.res, 5, 3) = cur.sreg[5]
    /\ cur.op = "CSR_SREG" =>
          /\ cur.res \subseteq 5..20
          /\ cur.sreg \in DeclaredSregArgs => cur.res \in DeclaredSregs
    /\ cur.op = "CSR_MSR_NUM" =>
          /\ cur.res \cap (21..31) = {24, 26, 28, 30, 31}
          /\ C8_GprIndex(cur.res, cur.gpr)
    /\ cur.op = "CSR_MRS_NUM" =>
          /\ cur.res \cap (21..31) = {21, 24, 26, 28, 30, 31}
          /\ C8_GprIndex(cur.res, cur.gpr)

C8_Witness ==
    /\ cur.op = "CSR_MRS_NUM" /\ cur.sreg = <<3, 3, 13, 0, 7>> /\ cur.gpr = "x24"
    /\ CSR_SREG(3, 3, 13, 0, 7) = CSR_SCXTNUM_EL0
    /\ Field(cur.res, 0, 5) = 24
    /\ Field(cur.res, 5, 16) = 3 * 16384 + 3 * 2048 + 13 * 128 + 7

\* C9: each feature-presence macro has the value 0 or 1, and CSR_RME_VERSION
\* a value in 0..15.
C9_PresenceIsZeroOrOne ==
    /\ cur.op \in {"CSR_HAS_PAC", "CSR_HAS_PACGA", "CSR_HAS_BTI", "CSR_HAS_RME",
                   "CSR_HAS_CSV2_2"} => cur.res \in {Zero, One}
    /\ cur.op = "CSR_RME_VERSION" => cur.res \subseteq 0..3

\* C10: csr_get_cpu_features sets FEAT_PAC (bit 0), FEAT_PACGA (bit 1),
\* FEAT_BTI (bit 2), FEAT_RME (bit 3) and FEAT_CSV2_2 (bit 4) each exactly
\* when its own field of the id registers says so, and no other bit.
C10_CpuFeatures ==
    cur.op = "csr_get_cpu_features" =>
        /\ cur.res \subseteq 0..4
        /\ 0 \in cur.res <=>
              (cur.isar1 \cap (4..11) # {} \/ cur.isar2 \cap (12..15) # {})
        /\ 1 \in cur.res <=>
              (cur.isar1 \cap (24..31) # {} \/ cur.isar2 \cap (8..11) # {})
        /\ 2 \in cur.res <=> cur.pfr1 \cap (0..3) # {}
        /\ 3 \in cur.res <=> cur.pfr0 \cap (52..55) # {}
        /\ 4 \in cur.res <=> Field(cur.pfr0, 56, 4) >= 2

C10_Witness ==
    /\ cur.op = "csr_get_cpu_features"
    /\ cur.pfr0 = {52} /\ cur.pfr1 = 0..63 /\ cur.isar1 = {} /\ cur.isar2 = {}
    /\ cur.res = {2, 3}

=============================================================================
